---- MODULE Spec2Model ----
(***************************************************************************)
(* vermig: a version-based PostgreSQL migration runner.                    *)
(*                                                                         *)
(* The model has three layers.                                             *)
(*   1. Strings.  A file name is a sequence of "_"-separated tokens, a     *)
(*      path a sequence of "/"-separated names, a script a sequence of     *)
(*      text chunks.  Parsing (semver.NewVersion, strconv.Atoi) and        *)
(*      rendering (Version.String) work on tokens.                         *)
(*   2. The engine's functions as operators: createChecksum,               *)
(*      parsePriority, sortFiles, collectFiles, verifyIntegrity,           *)
(*      findHigherVersionMigrations, migrateUp, migrateDown, Migrate,      *)
(*      MigrateLatest, New.                                                *)
(*   3. The state machine: the database (bookkeeping table and committed   *)
(*      statements), the engine returned by the latest New, and a record   *)
(*      of the latest call (its input, result, trace and transaction).     *)
(***************************************************************************)
EXTENDS Integers, Sequences, FiniteSets, TLC

VARIABLES
    tableExists,  \* the migrations table is present in the database
    records,      \* committed rows of the migrations table
    schema,       \* committed statements of migration scripts, in order
    m,            \* the *Vermig the latest New returned (ok = FALSE: nil)
    call,         \* the latest call: operation, input, faults that fired
    result,       \* the error value the latest call returned
    trace,        \* database operations the latest call performed, in order
    txState,      \* the latest call's transaction when the call returned
    pre,          \* database state when the latest call started
    applied,      \* a migration's up and down text and checksum as recorded
    script,       \* the same migration's text in the tree, as edited since
    procs         \* the Migrate calls that run concurrently, each at its step

vars ==
    <<tableExists, records, schema, m, call, result, trace, txState, pre,
      applied, script, procs>>

\* Bounds of the model: the committed statements a history may reach without
\* faults and in the runs with faults, and the operations of one kind a fault
\* may let through before it strikes.
MaxLog == 3
MaxFaultLog == 4
MaxFaultAt == 2
MaxText == 5
MaxDownText == 1

-----------------------------------------------------------------------------
(* Strings *)

\* A token: the text between two "_" of a name.  word # "" is a token that is
\* not of the digits-and-dots form; otherwise f are its dot-separated numeric
\* fields and pre the text after "-" (empty: none).
W(s) == [f |-> <<>>, pre |-> "", word |-> s]
N(f) == [f |-> f, pre |-> "", word |-> ""]
NP(f, p) == [f |-> f, pre |-> p, word |-> ""]

\* Go compares strings byte-wise.  The words of the model in that order.
Words ==
    <<"", "a", "add-email", "b", "beta", "create-users", "down.sql", "mid",
      "notes.txt", "other", "rc", "schema", "up.sql", "x">>

WordRank(s) == CHOOSE i \in 1..Len(Words) : Words[i] = s

StrLess(a, b) == WordRank(a) < WordRank(b)

\* Lexicographic order of two sequences of naturals.
RECURSIVE IntSeqCmp(_, _)
IntSeqCmp(a, b) ==
    IF a = <<>> /\ b = <<>> THEN 0
    ELSE IF a = <<>> THEN -1
    ELSE IF b = <<>> THEN 1
    ELSE IF Head(a) < Head(b) THEN -1
    ELSE IF Head(a) > Head(b) THEN 1
    ELSE IntSeqCmp(Tail(a), Tail(b))

IsPrefix(a, b) == Len(a) <= Len(b) /\ SubSeq(b, 1, Len(a)) = a

\* Byte-wise order of two tokens that are each followed by "_" in their
\* names: digits sort before letters, "-" before "." before "_".
TokCmp(a, b) ==
    IF a = b THEN 0
    ELSE IF a.word # "" /\ b.word # "" THEN (IF StrLess(a.word, b.word) THEN -1 ELSE 1)
    ELSE IF a.word # "" THEN 1
    ELSE IF b.word # "" THEN -1
    ELSE IF a.f = b.f THEN
        (IF a.pre = "" THEN 1
         ELSE IF b.pre = "" THEN -1
         ELSE IF StrLess(a.pre, b.pre) THEN -1 ELSE 1)
    ELSE IF IsPrefix(a.f, b.f) THEN (IF a.pre # "" THEN -1 ELSE 1)
    ELSE IF IsPrefix(b.f, a.f) THEN (IF b.pre # "" THEN 1 ELSE -1)
    ELSE IntSeqCmp(a.f, b.f)

\* Byte-wise order of two names (sequences of tokens joined by "_").
RECURSIVE NameCmp(_, _)
NameCmp(a, b) ==
    IF a = <<>> /\ b = <<>> THEN 0
    ELSE IF a = <<>> THEN -1
    ELSE IF b = <<>> THEN 1
    ELSE IF TokCmp(Head(a), Head(b)) # 0 THEN TokCmp(Head(a), Head(b))
    ELSE NameCmp(Tail(a), Tail(b))

\* Byte-wise order of two paths (sequences of names joined by "/").
RECURSIVE PathCmp(_, _)
PathCmp(a, b) ==
    IF a = <<>> /\ b = <<>> THEN 0
    ELSE IF a = <<>> THEN -1
    ELSE IF b = <<>> THEN 1
    ELSE IF NameCmp(Head(a), Head(b)) # 0 THEN NameCmp(Head(a), Head(b))
    ELSE PathCmp(Tail(a), Tail(b))

\* strings.HasSuffix(name, "_down.sql")
HasDownSuffix(name) == Len(name) >= 2 /\ name[Len(name)] = W("down.sql")

\* strings.Index(name, "_"): the name holds an underscore
HasUnderscore(name) == Len(name) >= 2

\* strconv.Atoi on a token
Atoi(tok) ==
    IF tok.word = "" /\ tok.pre = "" /\ Len(tok.f) = 1
    THEN [ok |-> TRUE, v |-> tok.f[1]]
    ELSE [ok |-> FALSE, v |-> 0]

-----------------------------------------------------------------------------
(* Versions (github.com/Masterminds/semver v1.5.0) *)

NoVersion == [major |-> 0, minor |-> 0, patch |-> 0, pre |-> ""]

\* semver.NewVersion: one to three numeric fields, missing ones are zero.
NewVersion(tok) ==
    IF tok.word # "" \/ Len(tok.f) \notin 1..3
    THEN [ok |-> FALSE, v |-> NoVersion]
    ELSE [ok |-> TRUE,
          v |-> [major |-> tok.f[1],
                 minor |-> IF Len(tok.f) >= 2 THEN tok.f[2] ELSE 0,
                 patch |-> IF Len(tok.f) >= 3 THEN tok.f[3] ELSE 0,
                 pre |-> tok.pre]]

\* Version.String: the canonical text, prerelease only if non-empty.
VersionString(v) == NP(<<v.major, v.minor, v.patch>>, v.pre)

\* Version.Compare: numeric triple, then prerelease (a prerelease is below
\* the release with the same triple).
Compare(a, b) ==
    IF a.major # b.major THEN (IF a.major < b.major THEN -1 ELSE 1)
    ELSE IF a.minor # b.minor THEN (IF a.minor < b.minor THEN -1 ELSE 1)
    ELSE IF a.patch # b.patch THEN (IF a.patch < b.patch THEN -1 ELSE 1)
    ELSE IF a.pre = b.pre THEN 0
    ELSE IF a.pre = "" THEN 1
    ELSE IF b.pre = "" THEN -1
    ELSE IF StrLess(a.pre, b.pre) THEN -1 ELSE 1

GreaterThan(a, b) == Compare(a, b) = 1
LessThan(a, b) == Compare(a, b) = -1
Equal(a, b) == Compare(a, b) = 0

-----------------------------------------------------------------------------
(* Checksum *)

\* strings.ReplaceAll(value, "\r\n", "\n"): one pass from the left over
\* non-overlapping occurrences.
RECURSIVE ReplaceCRLF(_)
ReplaceCRLF(text) ==
    IF Len(text) < 2 THEN text
    ELSE IF text[1] = "CR" /\ text[2] = "LF"
    THEN <<"LF">> \o ReplaceCRLF(SubSeq(text, 3, Len(text)))
    ELSE <<text[1]>> \o ReplaceCRLF(Tail(text))

IsSpace(c) == c \in {"SP", "LF", "CR", "TAB"}

\* strings.TrimSpace
RECURSIVE TrimLeft(_)
TrimLeft(text) ==
    IF text # <<>> /\ IsSpace(Head(text)) THEN TrimLeft(Tail(text)) ELSE text

RECURSIVE TrimRight(_)
TrimRight(text) ==
    IF text # <<>> /\ IsSpace(text[Len(text)])
    THEN TrimRight(SubSeq(text, 1, Len(text) - 1))
    ELSE text

TrimSpace(text) == TrimRight(TrimLeft(text))

\* The digest is taken as injective: it is the hashed byte string itself.
createChecksum(up, down) ==
    TrimSpace(ReplaceCRLF(up)) \o TrimSpace(ReplaceCRLF(down))

-----------------------------------------------------------------------------
(* The source tree (embed.FS): a set of files, each a path and its text *)

Entry(path, text) == [path |-> path, text |-> text]

\* fs.ReadFile
ReadFile(tree, path) ==
    IF \E e \in tree : e.path = path
    THEN [ok |-> TRUE, text |-> (CHOOSE e \in tree : e.path = path).text]
    ELSE [ok |-> FALSE, text |-> <<>>]

\* The order in which fs.WalkDir visits the files: lexical by path.
RECURSIVE WalkDir(_)
WalkDir(tree) ==
    IF tree = {} THEN <<>>
    ELSE LET first == CHOOSE e \in tree :
                          \A o \in tree \ {e} : PathCmp(e.path, o.path) = -1
         IN <<first>> \o WalkDir(tree \ {first})

\* entry.Name(): the last element of the path
BaseName(path) == path[Len(path)]

\* strings.Replace(path, "_up.sql", "_down.sql", 1): the first occurrence only
ReplaceUpMarker(path) ==
    LET hits == {h \in (1..Len(path)) \X (1..3) :
                    /\ h[2] >= 2
                    /\ h[2] <= Len(path[h[1]])
                    /\ path[h[1]][h[2]] = W("up.sql")}
    IN IF hits = {} THEN path
       ELSE LET h == CHOOSE g \in hits :
                        \A k \in hits : g[1] < k[1] \/ (g[1] = k[1] /\ g[2] <= k[2])
            IN [path EXCEPT ![h[1]][h[2]] = W("down.sql")]

\* strings.TrimSuffix(path, "/"+name)
TrimNameSuffix(path) ==
    IF Len(path) >= 2 THEN SubSeq(path, 1, Len(path) - 1) ELSE path

RECURSIVE parsePriority(_)
parsePriority(path) ==
    IF path = <<>> THEN <<>>
    ELSE LET part == Head(path)
             rest == parsePriority(Tail(path))
         IN IF HasUnderscore(part) /\ Atoi(part[1]).ok
            THEN <<Atoi(part[1]).v>> \o rest
            ELSE rest

\* The less function of sortFiles.
FileLess(a, b) ==
    LET c == IntSeqCmp(a.Priority, b.Priority)
    IN IF c # 0 THEN c = -1
       ELSE IF ~Equal(a.Version, b.Version) THEN LessThan(a.Version, b.Version)
       ELSE NameCmp(a.Name, b.Name) = -1

\* Mutant: the files are ordered by version alone.
sortFilesByVersion(files) ==
    {s \in [1..Len(files) -> {files[i] : i \in 1..Len(files)}] :
        /\ \A i \in 1..Len(files) :
              Cardinality({j \in 1..Len(files) : s[j] = files[i]})
                = Cardinality({j \in 1..Len(files) : files[j] = files[i]})
        /\ \A i, j \in 1..Len(files) : i < j => ~LessThan(s[j].Version, s[i].Version)}

\* sort.Slice is not stable: every arrangement of the files that is ordered
\* by FileLess is a possible result.
sortFiles(files) ==
    {s \in [1..Len(files) -> {files[i] : i \in 1..Len(files)}] :
        /\ \A i \in 1..Len(files) :
              Cardinality({j \in 1..Len(files) : s[j] = files[i]})
                = Cardinality({j \in 1..Len(files) : files[j] = files[i]})
        /\ \A i, j \in 1..Len(files) : i < j => ~FileLess(s[j], s[i])}

\* The callback of the walk in collectFiles, folded over the visited files.
\* err: "" (none), "parse" (the version does not parse), "panic" (the name
\* holds no underscore: the slice bound is -1).
RECURSIVE walkCollect(_, _)
walkCollect(entries, files) ==
    IF entries = <<>> THEN [err |-> "", files |-> files]
    ELSE LET path == Head(entries).path
             name == BaseName(path)
         IN IF HasDownSuffix(name) THEN walkCollect(Tail(entries), files)
            ELSE IF ~HasUnderscore(name) THEN [err |-> "panic", files |-> files]
            ELSE IF ~NewVersion(name[1]).ok THEN [err |-> "parse", files |-> files]
            ELSE walkCollect(Tail(entries),
                     Append(files,
                        [Priority |-> parsePriority(path),
                         Version |-> NewVersion(name[1]).v,
                         Scope |-> TrimNameSuffix(path),
                         Name |-> name,
                         UpPath |-> path,
                         DownPath |-> ReplaceUpMarker(path)]))

\* collectFiles before its final sortFiles.
collectFiles(tree) == walkCollect(WalkDir(tree), <<>>)

-----------------------------------------------------------------------------
(* The trees the engine is built with *)

Schema == <<W("schema")>>
UpName(ver, nm) == <<ver, W(nm), W("up.sql")>>
DownName(ver, nm) == <<ver, W(nm), W("down.sql")>>

Pair(dirs, ver, nm, up, down) ==
    {Entry(dirs \o <<UpName(ver, nm)>>, up), Entry(dirs \o <<DownName(ver, nm)>>, down)}

V100 == N(<<1, 0, 0>>)
V090 == N(<<0, 9, 0>>)
V110 == N(<<1, 1, 0>>)
V110rc == NP(<<1, 1, 0>>, "rc")

Users == Pair(<<Schema>>, V100, "create-users", <<"U1">>, <<"D1">>)
Email == Pair(<<Schema>>, V110, "add-email", <<"U2">>, <<"D2">>)
Other == Pair(<<Schema>>, V100, "other", <<"U3">>, <<"D3">>)

TreeEmpty == {}
TreeBase == Users \cup Email
\* the tree before the 1.0.0 file was added to it
TreeEmail == Email
\* the 1.0.0 up-script edited after it was applied
TreeEdited == Pair(<<Schema>>, V100, "create-users", <<"U1", "SP", "X">>, <<"D1">>) \cup Email
\* the 1.0.0 up-script with other line endings and padding only
TreeReformatted == Pair(<<Schema>>, V100, "create-users", <<"SP", "U1", "CR", "LF">>, <<"D1">>) \cup Email
\* two files of one scope and version
TreeDup == TreeBase \cup Other
\* numbered directories: 1_a holds 1.1.0, 2_b holds 1.0.0
TreePrio ==
    Pair(<<<<N(<<1>>), W("a")>>>>, V110, "x", <<"U4">>, <<"D4">>)
      \cup Pair(<<<<N(<<2>>), W("b")>>>>, V100, "x", <<"U5">>, <<"D5">>)
\* 1.1.0 has no down-script
TreeNoDown == Users \cup {Entry(<<Schema, UpName(V110, "add-email")>>, <<"U2">>)}
\* one file name in two directories without a number
TreeTwin ==
    Pair(<<<<W("a")>>>>, V100, "x", <<"U7">>, <<"D7">>)
      \cup Pair(<<<<W("b")>>>>, V100, "x", <<"U8">>, <<"D8">>)
\* a text file with a version in its name next to a migration
TreeNotes == Users \cup {Entry(<<Schema, <<V110, W("notes.txt")>>>>, <<"T">>)}
\* a release and its release candidate
TreeRc == Email \cup Pair(<<Schema>>, V110rc, "x", <<"U6">>, <<"D6">>)
\* a file whose version token does not parse
TreeBad == TreeBase \cup {Entry(<<Schema, <<W("x"), W("notes.txt")>>>>, <<"T">>)}

Trees ==
    {TreeEmpty, TreeBase, TreeEmail, TreeEdited, TreeReformatted, TreeDup, TreePrio,
     TreeTwin, TreeNotes, TreeNoDown, TreeBad}

\* The trees of the runs with faults.
FaultTrees == {TreeBase, TreeEdited, TreeDup, TreeRc, TreeBad}

\* The version strings callers pass to Migrate.
Targets == {V090, V100, V110, V110rc, W("x")}

\* The walk, the catalog and its possible orders for each tree, computed once.
Walked == [t \in Trees \cup FaultTrees |-> WalkDir(t)]
Collected == [t \in Trees \cup FaultTrees |-> collectFiles(t)]
Sorted == [t \in Trees \cup FaultTrees |-> sortFiles(Collected[t].files)]

-----------------------------------------------------------------------------
(* The database operations of one call *)

\* One database operation of a call, as the trace records it.
Ev(op, ok, name, scope, text, ids) ==
    [op |-> op, ok |-> ok, name |-> name, scope |-> scope, text |-> text, ids |-> ids]

Op(op, ok) == Ev(op, ok, <<>>, <<>>, <<>>, {})

\* A fault of the environment: the n-th operation of that kind in the call
\* returns an error.  For a query ("findAll", "findHigher") the operation is
\* db.Query together with pgxscan.ScanAll of its rows into []Migration; a
\* query without a fault returns the rows and scans them.
NoFault == [kind |-> "none", n |-> 1]

Count(tr, op) == Cardinality({i \in 1..Len(tr) : tr[i].op = op})

Hits(fault, op, tr) == fault.kind = op /\ fault.n = Count(tr, op) + 1

\* The state of a call inside its transaction: the rows and statements the
\* transaction sees, the operations so far, and the error that ended it.
Tx(recs, log, tr, err) ==
    [recs |-> recs, log |-> log, trace |-> tr, err |-> err]

\* (major, minor, patch) > (?, ?, ?): the row comparison of the query
TripleGreater(r, v) ==
    \/ r.major > v.major
    \/ r.major = v.major /\ r.minor > v.minor
    \/ r.major = v.major /\ r.minor = v.minor /\ r.patch > v.patch

\* ORDER BY major DESC, minor DESC, patch DESC: rows with the same triple
\* come in any order.
OrderedDesc(rows) ==
    {s \in [1..Cardinality(rows) -> rows] :
        /\ \A i, j \in 1..Cardinality(rows) : i # j => s[i] # s[j]
        /\ \A i, j \in 1..Cardinality(rows) : i < j => ~TripleGreater(s[j], s[i])}

\* The loop of findHigherVersionMigrations over the rows of the query.
RECURSIVE keepGreater(_, _)
keepGreater(rows, v) ==
    IF rows = <<>> THEN <<>>
    ELSE IF ~NewVersion(Head(rows).version).ok
              \/ ~GreaterThan(NewVersion(Head(rows).version).v, v)
         THEN keepGreater(Tail(rows), v)
         ELSE <<Head(rows)>> \o keepGreater(Tail(rows), v)

\* The possible results of findHigherVersionMigrations.
findHigherVersionMigrations(recs, v) ==
    {keepGreater(rows, v) : rows \in OrderedDesc({r \in recs : TripleGreater(r, v)})}

\* SELECT true FROM migrations WHERE name = $1 AND scope = $2
migrationExists(recs, name, scope) ==
    \E r \in recs : r.name = name /\ r.scope = scope

\* Mutant: the table has no unique constraint.
ViolatesUniqueNever(recs, row) == FALSE

\* Mutant: the table is created without uq_scope_version; the primary key is
\* its only constraint.
ViolatesUniqueById(recs, row) == \E r \in recs : r.id = row.id

\* CONSTRAINT uq_scope_version UNIQUE (scope, version, major, minor, patch, prerelease)
ViolatesUnique(recs, row) ==
    \E r \in recs :
        /\ r.scope = row.scope
        /\ r.version = row.version
        /\ r.major = row.major
        /\ r.minor = row.minor
        /\ r.patch = row.patch
        /\ r.prerelease = row.prerelease

\* gen_random_uuid(): an id no row of the table has.  Which fresh id is drawn
\* is immaterial, so the least one stands for all.
FreshId(recs) ==
    CHOOSE i \in 1..(Cardinality(recs) + 1) :
        /\ \A r \in recs : r.id # i
        /\ \A j \in 1..(i - 1) : \E r \in recs : r.id = j

\* The row insertMigration writes for a file; the id is the table's default.
Row(id, file, up, down) ==
    [id |-> id,
     name |-> file.Name,
     version |-> VersionString(file.Version),
     major |-> file.Version.major,
     minor |-> file.Version.minor,
     patch |-> file.Version.patch,
     prerelease |-> file.Version.pre,
     scope |-> file.Scope,
     up |-> up,
     down |-> down,
     checksum |-> createChecksum(up, down)]

\* Mutant: the DELETE without its WHERE clause.
deleteMigrationsAll(recs, ids) == {r \in recs : FALSE}

\* DELETE FROM migrations WHERE id IN (...)
deleteMigrations(recs, ids) == {r \in recs : r.id \notin ids}

-----------------------------------------------------------------------------
(* verifyIntegrity *)

\* Mutant: the checksum comparison is left out of the loop.
RECURSIVE verifyFilesNoCompare(_, _, _, _)
verifyFilesNoCompare(files, tree, allowDowngrade, recs) ==
    IF files = <<>> THEN ""
    ELSE IF allowDowngrade /\ ~ReadFile(tree, Head(files).DownPath).ok THEN "migration missing"
    ELSE IF ~ReadFile(tree, Head(files).UpPath).ok THEN "read migration file failed"
    ELSE verifyFilesNoCompare(Tail(files), tree, allowDowngrade, recs)

\* The loop over m.files: "" when every file passes, else the error of the
\* first file that fails.
RECURSIVE verifyFiles(_, _, _, _)
verifyFiles(files, tree, allowDowngrade, recs) ==
    IF files = <<>> THEN ""
    ELSE LET file == Head(files)
             down == ReadFile(tree, file.DownPath)
             up == ReadFile(tree, file.UpPath)
             stored == {r \in recs : r.scope = file.Scope /\ r.name = file.Name}
         IN IF allowDowngrade /\ ~down.ok THEN "migration missing"
            ELSE IF ~up.ok THEN "read migration file failed"
            ELSE IF stored = {} THEN verifyFiles(Tail(files), tree, allowDowngrade, recs)
            ELSE IF \E r \in stored : r.checksum # createChecksum(up.text, down.text)
            THEN "corrupted migration"
            ELSE verifyFiles(Tail(files), tree, allowDowngrade, recs)

verifyIntegrity(files, tree, allowDowngrade, fault, tx) ==
    IF Hits(fault, "findAll", tx.trace)
    THEN [tx EXCEPT !.trace = Append(@, Op("findAll", FALSE)),
                    !.err = "find all migrations failed"]
    ELSE LET tr == Append(tx.trace, Op("findAll", TRUE))
         IN IF tx.recs = {} THEN [tx EXCEPT !.trace = tr]
            ELSE [tx EXCEPT !.trace = tr,
                            !.err = verifyFiles(files, tree, allowDowngrade, tx.recs)]

-----------------------------------------------------------------------------
(* migrateUp and migrateDown *)

RECURSIVE migrateUp(_, _, _, _, _)
migrateUp(files, tree, target, fault, tx) ==
    IF files = <<>> THEN tx
    ELSE LET file == Head(files)
             up == ReadFile(tree, file.UpPath)
             down == ReadFile(tree, file.DownPath)
             row == Row(FreshId(tx.recs), file, up.text, down.text)
         IN IF GreaterThan(file.Version, target)
            THEN migrateUp(Tail(files), tree, target, fault, tx)
            ELSE IF Hits(fault, "exists", tx.trace)
            THEN [tx EXCEPT !.trace = Append(@, Ev("exists", FALSE, file.Name, file.Scope, <<>>, {})),
                            !.err = "verify migration existence failed"]
            ELSE LET tr1 == Append(tx.trace, Ev("exists", TRUE, file.Name, file.Scope, <<>>, {}))
                 IN IF migrationExists(tx.recs, file.Name, file.Scope)
                    THEN migrateUp(Tail(files), tree, target, fault, [tx EXCEPT !.trace = tr1])
                    ELSE IF ~up.ok
                    THEN [tx EXCEPT !.trace = tr1, !.err = "read migration file failed"]
                    ELSE IF Hits(fault, "up", tr1)
                    THEN [tx EXCEPT !.trace = Append(tr1, Ev("up", FALSE, file.Name, file.Scope, up.text, {})),
                                    !.err = "run migration up failed"]
                    ELSE LET tr2 == Append(tr1, Ev("up", TRUE, file.Name, file.Scope, up.text, {}))
                             log2 == Append(tx.log, up.text)
                         IN IF Hits(fault, "insert", tr2) \/ ViolatesUnique(tx.recs, row)
                            THEN [tx EXCEPT !.trace = Append(tr2, Ev("insert", FALSE, file.Name, file.Scope, <<>>, {})),
                                            !.log = log2,
                                            !.err = "insert migration failed"]
                            ELSE migrateUp(Tail(files), tree, target, fault,
                                    [tx EXCEPT !.trace = Append(tr2, Ev("insert", TRUE, file.Name, file.Scope, <<>>, {row.id})),
                                               !.log = log2,
                                               !.recs = @ \cup {row}])

\* The loop of migrateDown: the stored down-script of each row, in order.
RECURSIVE runDown(_, _, _)
runDown(migrations, fault, tx) ==
    IF migrations = <<>> THEN tx
    ELSE LET mg == Head(migrations)
         IN IF Hits(fault, "down", tx.trace)
            THEN [tx EXCEPT !.trace = Append(@, Ev("down", FALSE, mg.name, mg.scope, mg.down, {})),
                            !.err = "run migration down failed"]
            ELSE runDown(Tail(migrations), fault,
                    [tx EXCEPT !.trace = Append(@, Ev("down", TRUE, mg.name, mg.scope, mg.down, {})),
                               !.log = Append(@, mg.down)])

migrateDown(migrations, fault, tx) ==
    LET ran == runDown(migrations, fault, tx)
        ids == {migrations[i].id : i \in 1..Len(migrations)}
    IN IF ran.err # "" THEN ran
       ELSE IF Hits(fault, "delete", ran.trace)
       THEN [ran EXCEPT !.trace = Append(@, Ev("delete", FALSE, <<>>, <<>>, <<>>, ids)),
                        !.err = "delete migrations failed"]
       ELSE [ran EXCEPT !.trace = Append(@, Ev("delete", TRUE, <<>>, <<>>, <<>>, ids)),
                        !.recs = deleteMigrations(@, ids)]

-----------------------------------------------------------------------------
(* Migrate, MigrateLatest, New *)

\* The error a call returns: err is the message of the failing step ("" for
\* nil), cause the wrapped error, joined whether a rollback error is joined.
Err(err, cause, joined) == [ok |-> FALSE, err |-> err, cause |-> cause, joined |-> joined]
Nil == [ok |-> TRUE, err |-> "", cause |-> "", joined |-> FALSE]

\* What a call leaves behind: its result, the committed database, its trace,
\* its transaction and the engine's files.
Out(res, recs, log, tr, tx, files) ==
    [result |-> res, records |-> recs, schema |-> log,
     trace |-> tr, txState |-> tx, files |-> files]

\* Mutant: the failed step is followed by tx.Commit instead of tx.Rollback.
RollbackOutCommits(db, tx, err, rbFail, files) ==
    Out(Err(err, tx.err, rbFail), tx.recs, db.schema \o tx.log,
        Append(tx.trace, Op("rollback", ~rbFail)), "rolledback", files)

\* Mutant: the rollback error is dropped instead of joined.
RollbackOutNeverJoins(db, tx, err, rbFail, files) ==
    Out(Err(err, tx.err, FALSE), db.records, db.schema,
        Append(tx.trace, Op("rollback", ~rbFail)), "rolledback", files)

\* tx.Rollback after a failed step, and the error Migrate then returns.
RollbackOut(db, tx, err, rbFail, files) ==
    Out(Err(err, tx.err, rbFail), db.records, db.schema,
        Append(tx.trace, Op("rollback", ~rbFail)), "rolledback", files)

\* Migrate, given the order the higher-version query returned its rows in
\* and the order sortFiles left the files in.
MigrateCall(eng, db, version, fault, rbFail, higher, files) ==
    LET pv == NewVersion(version)
        same(res, tr, tx, fl) == Out(res, db.records, db.schema, tr, tx, fl)
        collected == Collected[eng.fs]
        tx0 == Tx(db.records, <<>>, <<Op("findHigher", TRUE), Op("begin", TRUE)>>, "")
        tx1 == verifyIntegrity(files, eng.fs, eng.allowDowngrade, fault, tx0)
        tx1w == IF ~eng.allowDowngrade /\ Len(higher) > 0
                THEN [tx1 EXCEPT !.trace = Append(@, Op("warn", TRUE))]
                ELSE tx1
        tx2 == IF eng.allowDowngrade /\ Len(higher) > 0
               THEN migrateDown(higher, fault, tx1w)
               ELSE tx1w
        tx3 == IF Len(higher) = 0
               THEN migrateUp(files, eng.fs, pv.v, fault, tx2)
               ELSE tx2
    IN IF ~pv.ok
       THEN same(Err("parse version failed", "", FALSE), <<>>, "none", eng.files)
       ELSE IF Hits(fault, "findHigher", <<>>)
       THEN same(Err("find higher version migrations failed", "", FALSE),
                 <<Op("findHigher", FALSE)>>, "none", eng.files)
       ELSE IF Hits(fault, "begin", <<>>)
       THEN same(Err("begin migrations failed", "", FALSE),
                 <<Op("findHigher", TRUE), Op("begin", FALSE)>>, "none", eng.files)
       ELSE IF collected.err # ""
       THEN same(Err("collect migrations failed", collected.err, FALSE),
                 tx0.trace, "open", collected.files)
       ELSE IF tx1.err # ""
       THEN RollbackOut(db, tx1, "verify integrity failed", rbFail, files)
       ELSE IF tx2.err # ""
       THEN RollbackOut(db, tx2, "downgrade db failed", rbFail, files)
       ELSE IF tx3.err # ""
       THEN RollbackOut(db, tx3, "upgrade db failed", rbFail, files)
       ELSE IF Hits(fault, "commit", tx3.trace)
       THEN RollbackOut(db, [tx3 EXCEPT !.trace = Append(@, Op("commit", FALSE)),
                                        !.err = "commit failed"],
                        "commit migrations failed", rbFail, files)
       ELSE Out(Nil, tx3.recs, db.schema \o tx3.log,
                Append(tx3.trace, Op("commit", TRUE)), "committed", files)

\* The callback of the walk in MigrateLatest, folded over the visited files.
RECURSIVE walkLatest(_, _)
walkLatest(entries, candidates) ==
    IF entries = <<>> THEN [err |-> "", candidates |-> candidates]
    ELSE LET name == BaseName(Head(entries).path)
         IN IF HasDownSuffix(name) THEN walkLatest(Tail(entries), candidates)
            ELSE IF ~HasUnderscore(name) THEN [err |-> "panic", candidates |-> candidates]
            ELSE IF ~NewVersion(name[1]).ok THEN [err |-> "parse", candidates |-> candidates]
            ELSE walkLatest(Tail(entries), Append(candidates, NewVersion(name[1]).v))

\* Mutant: the first element of the sorted candidates is taken.
FirstSorted(candidates) ==
    CHOOSE c \in {candidates[i] : i \in 1..Len(candidates)} :
        \A i \in 1..Len(candidates) : ~LessThan(candidates[i], c)

\* candidates[len(candidates)-1] after sort.Sort(semver.Collection(candidates))
LastSorted(candidates) ==
    CHOOSE c \in {candidates[i] : i \in 1..Len(candidates)} :
        \A i \in 1..Len(candidates) : ~GreaterThan(candidates[i], c)

\* The version string MigrateLatest hands to Migrate.
LatestVersion(tree) == VersionString(LastSorted(walkLatest(Walked[tree], <<>>).candidates))

MigrateLatestCall(eng, db, fault, rbFail, higher, files) ==
    LET found == walkLatest(Walked[eng.fs], <<>>)
        same(res) == Out(res, db.records, db.schema, <<>>, "none", eng.files)
    IN IF found.err # ""
       THEN same(Err("find latest migration failed", found.err, FALSE))
       ELSE IF Len(found.candidates) = 0
       THEN same(Err("no migrations found", "", FALSE))
       ELSE MigrateCall(eng, db, LatestVersion(eng.fs), fault, rbFail, higher, files)

\* New: the engine it returns (ok = FALSE: nil), the error, and the table.
NoEngine == [ok |-> FALSE, fs |-> {}, allowDowngrade |-> FALSE, files |-> <<>>]

\* Mutant: the engine is returned although creating the table failed.
NewCallKeepsEngine(fs, allowDowngrade, exists, fault) ==
    LET eng == [ok |-> TRUE, fs |-> fs, allowDowngrade |-> allowDowngrade, files |-> <<>>]
    IN IF Hits(fault, "tableExists", <<>>)
       THEN [m |-> NoEngine, tableExists |-> exists,
             result |-> Err("get migrations table exitence failed", "", FALSE),
             trace |-> <<Op("tableExists", FALSE)>>]
       ELSE IF exists
       THEN [m |-> eng, tableExists |-> exists, result |-> Nil,
             trace |-> <<Op("tableExists", TRUE)>>]
       ELSE IF Hits(fault, "createTable", <<>>)
       THEN [m |-> eng, tableExists |-> exists,
             result |-> Err("create migrations table failed", "", FALSE),
             trace |-> <<Op("tableExists", TRUE), Op("createTable", FALSE)>>]
       ELSE [m |-> eng, tableExists |-> TRUE, result |-> Nil,
             trace |-> <<Op("tableExists", TRUE), Op("createTable", TRUE)>>]

NewCall(fs, allowDowngrade, exists, fault) ==
    LET eng == [ok |-> TRUE, fs |-> fs, allowDowngrade |-> allowDowngrade, files |-> <<>>]
    IN IF Hits(fault, "tableExists", <<>>)
       THEN [m |-> NoEngine, tableExists |-> exists,
             result |-> Err("get migrations table exitence failed", "", FALSE),
             trace |-> <<Op("tableExists", FALSE)>>]
       ELSE IF exists
       THEN [m |-> eng, tableExists |-> exists, result |-> Nil,
             trace |-> <<Op("tableExists", TRUE)>>]
       ELSE IF Hits(fault, "createTable", <<>>)
       THEN [m |-> NoEngine, tableExists |-> exists,
             result |-> Err("create migrations table failed", "", FALSE),
             trace |-> <<Op("tableExists", TRUE), Op("createTable", FALSE)>>]
       ELSE [m |-> eng, tableExists |-> TRUE, result |-> Nil,
             trace |-> <<Op("tableExists", TRUE), Op("createTable", TRUE)>>]

-----------------------------------------------------------------------------
(* The state machine *)

Db == [records |-> records, schema |-> schema, tableExists |-> tableExists]

Faults ==
    {NoFault}
      \cup {[kind |-> k, n |-> 1] : k \in {"findHigher", "begin", "findAll", "delete", "commit"}}
      \cup {[kind |-> k, n |-> n] : k \in {"exists", "up", "down", "insert"}, n \in 1..MaxFaultAt}

NewFaults == {NoFault} \cup {[kind |-> k, n |-> 1] : k \in {"tableExists", "createTable"}}

\* The fault occurred: the n-th operation of its kind is in the trace, failed.
Fired(fault, tr) ==
    \/ fault.kind = "none"
    \/ \E i \in 1..Len(tr) :
          /\ tr[i].op = fault.kind
          /\ ~tr[i].ok
          /\ Count(SubSeq(tr, 1, i - 1), fault.kind) = fault.n - 1

\* The rollback failed only if one was attempted.
RollbackFired(rbFail, tr) ==
    rbFail => \E i \in 1..Len(tr) : tr[i].op = "rollback"

\* No call is in progress: the caller is between two calls.
NoCall == [op |-> "none", version |-> W(""), fault |-> NoFault, rbFail |-> FALSE]

\* A migration's text: its fragments, the checksum createChecksum gives them,
\* and the edit that led to them.
Script(up, down, edit) ==
    [up |-> up, down |-> down, checksum |-> createChecksum(up, down), edit |-> edit]

Init ==
    /\ tableExists = FALSE
    /\ records = {}
    /\ schema = <<>>
    /\ m = NoEngine
    /\ call = NoCall
    /\ result = Nil
    /\ trace = <<>>
    /\ txState = "none"
    /\ pre = [records |-> {}, schema |-> <<>>, tableExists |-> FALSE]
    /\ applied = Script(<<>>, <<>>, "none")
    /\ script = Script(<<>>, <<>>, "none")
    /\ procs = <<>>

Finish(op, version, fault, rbFail, out, maxLog) ==
    /\ call = NoCall
    /\ Fired(fault, out.trace)
    /\ RollbackFired(rbFail, out.trace)
    /\ call' = [op |-> op, version |-> version, fault |-> fault, rbFail |-> rbFail]
    /\ result' = out.result
    /\ trace' = out.trace
    /\ txState' = out.txState
    /\ records' = out.records
    /\ schema' = out.schema
    /\ Len(out.schema) <= maxLog
    /\ m' = [m EXCEPT !.files = out.files]
    /\ pre' = Db
    /\ UNCHANGED <<tableExists, applied, script, procs>>

HigherChoices(version) ==
    IF NewVersion(version).ok
    THEN findHigherVersionMigrations(records, NewVersion(version).v)
    ELSE {<<>>}

FileChoices == IF Collected[m.fs].err = "" THEN Sorted[m.fs] ELSE {<<>>}

\* New(ctx, WithDB(db), WithFS(fs), WithAllowDowngrade(allowDowngrade)), with
\* the tree drawn from trees and the fault of the environment from faults.
NewWith(trees, faults) ==
    \E fs \in trees, allowDowngrade \in BOOLEAN, fault \in faults :
        LET out == NewCall(fs, allowDowngrade, tableExists, fault)
        IN /\ call = NoCall
           /\ Fired(fault, out.trace)
           /\ call' = [op |-> "New", version |-> W(""), fault |-> fault, rbFail |-> FALSE]
           /\ m' = out.m
           /\ tableExists' = out.tableExists
           /\ result' = out.result
           /\ trace' = out.trace
           /\ txState' = "none"
           /\ pre' = Db
           /\ UNCHANGED <<records, schema, applied, script, procs>>

\* m.Migrate(ctx, version)
MigrateWith(faults, rbFails, maxLog) ==
    /\ m.ok
    /\ \E files \in FileChoices, version \in Targets :
        \E higher \in HigherChoices(version), fault \in faults, rbFail \in rbFails :
            Finish("Migrate", version, fault, rbFail,
                   MigrateCall(m, Db, version, fault, rbFail, higher, files), maxLog)

\* m.MigrateLatest(ctx)
MigrateLatestWith(faults, rbFails, maxLog) ==
    /\ m.ok
    /\ \E files \in FileChoices :
        \E higher \in (IF files = <<>> THEN {<<>>} ELSE HigherChoices(LatestVersion(m.fs))) :
            \E fault \in faults, rbFail \in rbFails :
                Finish("MigrateLatest",
                       IF files = <<>> THEN W("") ELSE LatestVersion(m.fs),
                       fault, rbFail,
                       MigrateLatestCall(m, Db, fault, rbFail, higher, files), maxLog)

\* The caller takes the returned error and goes on to its next call.
Return ==
    /\ call # NoCall
    /\ call' = NoCall
    /\ result' = Nil
    /\ trace' = <<>>
    /\ txState' = "none"
    /\ pre' = Db
    /\ UNCHANGED <<tableExists, records, schema, m, applied, script, procs>>

\* Calls in an environment without faults, over every tree.
New == NewWith(Trees, {NoFault})
Migrate == MigrateWith({NoFault}, {FALSE}, MaxLog)
MigrateLatest == MigrateLatestWith({NoFault}, {FALSE}, MaxLog)

Next == New \/ Migrate \/ MigrateLatest \/ Return

\* Calls in an environment where any database operation may fail, over the
\* trees of one project.
NewFaulty == NewWith(FaultTrees, NewFaults)
MigrateFaulty == MigrateWith(Faults, BOOLEAN, MaxFaultLog)
MigrateLatestFaulty == MigrateLatestWith(Faults, BOOLEAN, MaxFaultLog)

NextFaulty == NewFaulty \/ MigrateFaulty \/ MigrateLatestFaulty \/ Return

Spec == Init /\ [][Next]_vars

SpecFaulty == Init /\ [][NextFaulty]_vars

-----------------------------------------------------------------------------
(* The checksum of a migration whose files are edited after it was applied *)

Chars == {"A", "CR", "LF"}
Spaces == {"CR", "LF"}
Sides == {"up", "down"}

\* The texts of at most n characters.
Fragments(n) == UNION {[1..k -> Chars] : k \in 0..n}

\* A migration with any text is applied; its row holds text and checksum.
InitChecksum ==
    /\ tableExists = FALSE
    /\ records = {}
    /\ schema = <<>>
    /\ m = NoEngine
    /\ call = NoCall
    /\ result = Nil
    /\ trace = <<>>
    /\ txState = "none"
    /\ pre = [records |-> {}, schema |-> <<>>, tableExists |-> FALSE]
    /\ \E up \in Fragments(MaxText), down \in Fragments(MaxDownText) :
          /\ applied = Script(up, down, "none")
          /\ script = Script(up, down, "none")
    /\ procs = <<>>

\* One edit of the applied text; the checksum is the one verifyIntegrity
\* computes for the edited files.
Edit(side, text, edit) ==
    /\ script.edit = "none"
    /\ script' = IF side = "up" THEN Script(text, script.down, edit)
                                ELSE Script(script.up, text, edit)
    /\ UNCHANGED <<tableExists, records, schema, m, call, result, trace, txState, pre,
                   applied, procs>>

\* The CRLF line endings of a fragment are replaced by LF.
ConvertLineEndings ==
    \E side \in Sides :
        /\ ReplaceCRLF(script[side]) # script[side]
        /\ Edit(side, ReplaceCRLF(script[side]), "line-endings")

\* Whitespace is added in front of a fragment or behind it.
AddSpace ==
    \E side \in Sides, c \in Spaces, front \in BOOLEAN :
        Edit(side, IF front THEN <<c>> \o script[side] ELSE Append(script[side], c), "space")

\* Leading or trailing whitespace of a fragment is removed.
RemoveSpace ==
    \E side \in Sides, front \in BOOLEAN :
        LET text == script[side]
        IN /\ text # <<>>
           /\ IsSpace(IF front THEN Head(text) ELSE text[Len(text)])
           /\ Edit(side, IF front THEN Tail(text) ELSE SubSeq(text, 1, Len(text) - 1), "space")

\* The end of the up fragment is moved to the front of the down fragment.
MoveText ==
    /\ script.up # <<>>
    /\ script.edit = "none"
    /\ script' = Script(SubSeq(script.up, 1, Len(script.up) - 1),
                        <<script.up[Len(script.up)]>> \o script.down, "move")
    /\ UNCHANGED <<tableExists, records, schema, m, call, result, trace, txState, pre,
                   applied, procs>>

\* A statement is appended to a fragment.
AppendText == \E side \in Sides : Edit(side, Append(script[side], "A"), "content")

NextChecksum == ConvertLineEndings \/ AddSpace \/ RemoveSpace \/ MoveText \/ AppendText

SpecChecksum == InitChecksum /\ [][NextChecksum]_vars

-----------------------------------------------------------------------------
(* Two Migrate calls at once: separate engines over one tree, one database. *)
(* Each statement a call sends is one step.  A statement reads the rows     *)
(* that are committed when it runs and the rows of its own transaction      *)
(* (PostgreSQL READ COMMITTED); an INSERT that collides under               *)
(* uq_scope_version with a row of a transaction still open waits for that   *)
(* transaction to end, and so does a DELETE of a row the other transaction  *)
(* deleted.                                                                 *)

Procs == {1, 2}

ConcurrentTrees == {TreeBase, TreeTwin}
ConcurrentTargets == {V100, V110}

\* The database after a Migrate(version) of an earlier run on the empty table.
StoreAfter(fs, version) ==
    LET files == CHOOSE sorted \in Sorted[fs] : TRUE
        tx == migrateUp(files, fs, NewVersion(version).v, NoFault, Tx({}, <<>>, <<>>, ""))
    IN [records |-> tx.recs, schema |-> tx.log]

\* A call before its first statement.
StartProc ==
    [pc |-> "findHigher", higher |-> <<>>, files |-> <<>>, todo |-> <<>>,
     rows |-> {}, log |-> <<>>, del |-> {}, ups |-> {}, tx |-> "none", err |-> ""]

InitConcurrent ==
    /\ tableExists = TRUE
    /\ \E fs \in ConcurrentTrees, allowDowngrade \in BOOLEAN,
          version \in ConcurrentTargets, before \in {V090, V100, V110} :
          /\ records = StoreAfter(fs, before).records
          /\ schema = StoreAfter(fs, before).schema
          /\ m = [ok |-> TRUE, fs |-> fs, allowDowngrade |-> allowDowngrade, files |-> <<>>]
          /\ call = [op |-> "Migrate", version |-> version, fault |-> NoFault, rbFail |-> FALSE]
          /\ pre = [records |-> StoreAfter(fs, before).records,
                    schema |-> StoreAfter(fs, before).schema,
                    tableExists |-> TRUE]
    /\ result = Nil
    /\ trace = <<>>
    /\ txState = "none"
    /\ applied = Script(<<>>, <<>>, "none")
    /\ script = Script(<<>>, <<>>, "none")
    /\ procs = [p \in Procs |-> StartProc]

\* The rows a statement of p's transaction reads.
Visible(p) == {r \in records : r.id \notin procs[p].del} \cup procs[p].rows

\* The other call's transaction is open.
Open(q) == procs[q].tx = "open"

\* p's step leaves the database and the inputs of the calls as they are.
Local(p, next) ==
    /\ procs' = [procs EXCEPT ![p] = next]
    /\ UNCHANGED <<tableExists, records, schema, m, call, result, trace, txState, pre,
                   applied, script>>

\* tx.Rollback after a failed step: the transaction's writes are dropped.
Aborted(p, err) ==
    [procs[p] EXCEPT !.pc = "done", !.tx = "rolledback", !.err = err,
                     !.rows = {}, !.log = <<>>, !.del = {}, !.ups = {}, !.todo = <<>>]

\* The files migrateUp does not skip for their version.
AtOrBelow(files, target) ==
    SelectSeq(files, LAMBDA file : ~GreaterThan(file.Version, target))

\* findHigherVersionMigrations on m.db, before the transaction.
StepFindHigher(p) ==
    /\ procs[p].pc = "findHigher"
    /\ \E higher \in findHigherVersionMigrations(records, NewVersion(call.version).v) :
          Local(p, [procs[p] EXCEPT !.pc = "begin", !.higher = higher])

\* m.db.Begin, then collectFiles.
StepBegin(p) ==
    /\ procs[p].pc = "begin"
    /\ \E files \in Sorted[m.fs] :
          Local(p, [procs[p] EXCEPT !.pc = "verify", !.tx = "open", !.files = files])

\* verifyIntegrity, and the direction Migrate then takes.
StepVerifyIntegrity(p) ==
    /\ procs[p].pc = "verify"
    /\ LET err == IF Visible(p) = {} THEN ""
                  ELSE verifyFiles(procs[p].files, m.fs, m.allowDowngrade, Visible(p))
           higher == procs[p].higher
       IN Local(p,
             IF err # "" THEN Aborted(p, err)
             ELSE IF m.allowDowngrade /\ Len(higher) > 0
             THEN [procs[p] EXCEPT !.pc = "down", !.todo = higher]
             ELSE IF Len(higher) = 0
             THEN [procs[p] EXCEPT
                      !.pc = "exists",
                      !.todo = AtOrBelow(procs[p].files, NewVersion(call.version).v)]
             ELSE [procs[p] EXCEPT !.pc = "commit"])

\* migrateDown: tx.Exec of the next row's stored down-script.
StepDown(p) ==
    /\ procs[p].pc = "down"
    /\ procs[p].todo # <<>>
    /\ Local(p, [procs[p] EXCEPT
                    !.log = Append(@, Head(procs[p].todo).down),
                    !.todo = Tail(@),
                    !.pc = IF Len(procs[p].todo) = 1 THEN "delete" ELSE "down"])

\* migrateDown: deleteMigrations of the rows whose down-script ran.
StepDelete(p) ==
    LET ids == {procs[p].higher[i].id : i \in 1..Len(procs[p].higher)}
    IN /\ procs[p].pc = "delete"
       /\ \A q \in Procs \ {p} : Open(q) => procs[q].del \cap ids = {}
       /\ Local(p, [procs[p] EXCEPT
                       !.del = {r.id : r \in {v \in Visible(p) : v.id \in ids}},
                       !.pc = "commit"])

\* migrateUp: migrationExists for the next file.
StepExists(p) ==
    /\ procs[p].pc = "exists"
    /\ LET todo == procs[p].todo
       IN Local(p,
             IF todo = <<>> THEN [procs[p] EXCEPT !.pc = "commit"]
             ELSE IF migrationExists(Visible(p), Head(todo).Name, Head(todo).Scope)
             THEN [procs[p] EXCEPT !.todo = Tail(@)]
             ELSE [procs[p] EXCEPT !.pc = "up"])

\* migrateUp: tx.Exec of the file's up-script.
StepUp(p) ==
    /\ procs[p].pc = "up"
    /\ LET file == Head(procs[p].todo)
       IN Local(p, [procs[p] EXCEPT
                      !.log = Append(@, ReadFile(m.fs, file.UpPath).text),
                      !.ups = @ \cup {<<file.Name, file.Scope>>},
                      !.pc = "insert"])

\* The row insertMigration sends for p's file.
InsertRow(p) ==
    LET file == Head(procs[p].todo)
    IN Row(FreshId(records \cup UNION {procs[q].rows : q \in Procs}), file,
           ReadFile(m.fs, file.UpPath).text, ReadFile(m.fs, file.DownPath).text)

\* p's INSERT waits for the open transaction of q, which holds a row with
\* its key.
WaitsFor(p, q) ==
    /\ procs[p].pc = "insert"
    /\ q # p
    /\ Open(q)
    /\ ViolatesUnique(procs[q].rows, InsertRow(p))

\* migrateUp: insertMigration.
StepInsert(p) ==
    /\ procs[p].pc = "insert"
    /\ \A q \in Procs : ~WaitsFor(p, q)
    /\ Local(p,
          IF ViolatesUnique(Visible(p), InsertRow(p))
          THEN Aborted(p, "insert migration failed")
          ELSE [procs[p] EXCEPT !.rows = @ \cup {InsertRow(p)},
                                !.todo = Tail(@),
                                !.pc = "exists"])

\* Two INSERTs wait for each other: the database ends one of them with a
\* deadlock error.
StepDeadlock(p) ==
    /\ \E q \in Procs : WaitsFor(p, q) /\ WaitsFor(q, p)
    /\ Local(p, Aborted(p, "insert migration failed"))

\* tx.Commit
StepCommit(p) ==
    /\ procs[p].pc = "commit"
    /\ records' = {r \in records : r.id \notin procs[p].del} \cup procs[p].rows
    /\ schema' = schema \o procs[p].log
    /\ procs' = [procs EXCEPT ![p] = [@ EXCEPT !.pc = "done", !.tx = "committed"]]
    /\ UNCHANGED <<tableExists, m, call, result, trace, txState, pre, applied, script>>

NextConcurrent ==
    \E p \in Procs :
        \/ StepFindHigher(p)
        \/ StepBegin(p)
        \/ StepVerifyIntegrity(p)
        \/ StepDown(p)
        \/ StepDelete(p)
        \/ StepExists(p)
        \/ StepUp(p)
        \/ StepInsert(p)
        \/ StepDeadlock(p)
        \/ StepCommit(p)

SpecConcurrent == InitConcurrent /\ [][NextConcurrent]_vars

-----------------------------------------------------------------------------
(* Vocabulary of the properties *)

MigrateOps == {"Migrate", "MigrateLatest"}

\* The scripts the latest call executed, in order.
Executed(tr) == SelectSeq(tr, LAMBDA e : e.op \in {"up", "down"} /\ e.ok)

\* The latest call tried to execute a script or to write a row.
Touched(tr) == \E i \in 1..Len(tr) : tr[i].op \in {"up", "down", "insert", "delete"}

\* The rows of a set without their ids: name, scope, version, up, down.
Applied(recs) == {<<r.name, r.scope, r.version, r.up, r.down>> : r \in recs}

UsersRow == <<UpName(V100, "create-users"), <<Schema>>, V100, <<"U1">>, <<"D1">>>>
EmailRow == <<UpName(V110, "add-email"), <<Schema>>, V110, <<"U2">>, <<"D2">>>>

-----------------------------------------------------------------------------
(* Properties *)

\* C1: a Migrate call that returns an error leaves the committed database as
\* it was before the call: the committed rows and the committed statements
\* after the call are those before it.
C1_FailedMigrateChangesNothing ==
    (call.op \in MigrateOps /\ ~result.ok)
        => (records = pre.records /\ schema = pre.schema)

\* C1 witness: the up-script of the second file failed after the first file's
\* up-script and row went through inside the transaction.
C1_Witness ==
    /\ call.op = "Migrate"
    /\ call.fault = [kind |-> "up", n |-> 2]
    /\ ~result.ok
    /\ Len(Executed(trace)) = 1
    /\ \E i \in 1..Len(trace) : trace[i].op = "insert" /\ trace[i].ok

CatalogOk == Collected[m.fs].err = ""
Catalog == {Collected[m.fs].files[i] : i \in 1..Len(Collected[m.fs].files)}

\* The version of a stored row, and the parsed target of the latest call.
RowVersion(r) == NewVersion(r.version).v
Target == NewVersion(call.version).v

\* The file has a row in the given table.
Recorded(file, recs) == \E r \in recs : r.name = file.Name /\ r.scope = file.Scope

\* C3: Migrate at a fixed target is idempotent: after a successful
\* Migrate(V), a second Migrate(V) on the unchanged tree succeeds, executes no
\* script and leaves the rows of the table as they are.
C3_Idempotent ==
    (call.op = "Migrate" /\ result.ok)
        => \A higher \in HigherChoices(call.version), files \in FileChoices :
              LET again == MigrateCall(m, Db, call.version, NoFault, FALSE, higher, files)
              IN /\ again.result.ok
                 /\ Executed(again.trace) = <<>>
                 /\ again.records = records

FileChecksum(tree, file) ==
    createChecksum(ReadFile(tree, file.UpPath).text, ReadFile(tree, file.DownPath).text)

\* A catalog file whose current checksum differs from the one stored in the
\* row with its scope and name.
Mismatch(tree, recs) ==
    \E file \in Catalog, r \in recs :
        /\ r.scope = file.Scope
        /\ r.name = file.Name
        /\ r.checksum # FileChecksum(tree, file)

\* C4: when the current checksum of a catalog file differs from the checksum
\* stored for its scope and name, every Migrate call fails, and it has neither
\* executed a script nor inserted or deleted a row.
C4_MismatchFailsBeforeAnyChange ==
    (call.op \in MigrateOps /\ CatalogOk /\ Mismatch(m.fs, pre.records))
        => (~result.ok /\ ~Touched(trace))

\* C4 witness: a call with a parsable target was refused for a corrupted file.
C4_Witness ==
    /\ call.op = "Migrate"
    /\ NewVersion(call.version).ok
    /\ CatalogOk
    /\ Mismatch(m.fs, pre.records)
    /\ result.cause = "corrupted migration"

\* Every file of the catalog passes the integrity check against the rows.
IntegrityOk(tree, allowDowngrade, recs) ==
    \/ recs = {}
    \/ \A file \in Catalog :
          /\ allowDowngrade => ReadFile(tree, file.DownPath).ok
          /\ \A r \in recs :
                (r.scope = file.Scope /\ r.name = file.Name)
                    => r.checksum = FileChecksum(tree, file)

\* C5: with downgrade disabled and a stored row above the target, Migrate
\* returns success, executes no script and leaves the table unchanged.
C5_NoOpWhenDowngradeDisabled ==
    (/\ call.op = "Migrate"
     /\ NewVersion(call.version).ok
     /\ ~m.allowDowngrade
     /\ CatalogOk
     /\ IntegrityOk(m.fs, m.allowDowngrade, pre.records)
     /\ \E r \in pre.records : GreaterThan(RowVersion(r), Target))
        => (result.ok /\ Executed(trace) = <<>> /\ records = pre.records)

\* The tree holds no migration file: the walk finds no candidate.
NoMigrationFile == \A e \in m.fs : HasDownSuffix(BaseName(e.path))

\* The maximum version among the files of the catalog.
MaxCatalogVersion ==
    CHOOSE v \in {file.Version : file \in Catalog} :
        \A file \in Catalog : ~GreaterThan(file.Version, v)

\* The latest call left behind what the given call leaves behind.
SameOutcome(out) ==
    /\ out.result = result
    /\ out.records = records
    /\ out.schema = schema
    /\ out.trace = trace
    /\ out.txState = txState

\* C7: MigrateLatest on a tree without a migration file returns an error and
\* performs no database operation; on a tree whose files all carry a version
\* its result and effect are those of Migrate(V) from the same database state,
\* V being the maximum version among the catalog's files.
C7_LatestIsMigrateMax ==
    (call.op = "MigrateLatest")
        => /\ NoMigrationFile
                => /\ ~result.ok
                   /\ trace = <<>>
                   /\ txState = "none"
                   /\ records = pre.records
                   /\ schema = pre.schema
           /\ (~NoMigrationFile /\ CatalogOk)
                => \E files \in FileChoices :
                      \E higher \in findHigherVersionMigrations(pre.records, MaxCatalogVersion) :
                          SameOutcome(MigrateCall(m, pre, VersionString(MaxCatalogVersion),
                                                  call.fault, call.rbFail, higher, files))

\* C7 witness: MigrateLatest on the two-file tree applied both files, the
\* 1.1.0 one included.
C7_Witness ==
    /\ call.op = "MigrateLatest"
    /\ m.fs = TreeBase
    /\ result.ok
    /\ pre.records = {}
    /\ Applied(records) = {UsersRow, EmailRow}

\* C8: New returns either an engine and no error, the table then being
\* present, or an error and no engine; it returns no engine when the existence
\* check fails or when the table is absent and creating it fails, and it does
\* not create the table when the table exists.
C8_NewEngineOrError ==
    (call.op = "New")
        => /\ result.ok <=> m.ok
           /\ m.ok => tableExists
           /\ call.fault.kind = "tableExists" => ~m.ok
           /\ (~pre.tableExists /\ call.fault.kind = "createTable") => ~m.ok
           /\ pre.tableExists => \A i \in 1..Len(trace) : trace[i].op # "createTable"
           /\ tableExists = (pre.tableExists \/ \E i \in 1..Len(trace) :
                                                  trace[i].op = "createTable" /\ trace[i].ok)

\* C8 witness: the table was absent and creating it failed.
C8_Witness ==
    /\ call.op = "New"
    /\ call.fault.kind = "createTable"
    /\ ~pre.tableExists
    /\ ~result.ok
    /\ ~m.ok

\* The version a file name starts with.
NameVersion(name) == NewVersion(name[1]).v

\* The i-th operation of the latest call ran the up-script of a file while
\* the table, as the call's transaction sees it, held a row of another file
\* with the same scope and version.
SecondOfScopeVersion(i) ==
    /\ trace[i].op = "up"
    /\ trace[i].ok
    /\ \/ \E r \in pre.records :
             /\ r.scope = trace[i].scope
             /\ r.version = VersionString(NameVersion(trace[i].name))
             /\ r.name # trace[i].name
       \/ \E j \in 1..(i - 1) :
             /\ trace[j].op = "insert"
             /\ trace[j].ok
             /\ trace[j].scope = trace[i].scope
             /\ NameVersion(trace[j].name) = NameVersion(trace[i].name)
             /\ trace[j].name # trace[i].name

\* C9: no two committed rows share scope and version; and when the up-script
\* of a file runs while a row of another file with its scope and version is
\* in the table, the insert that follows fails and the call is rolled back.
C9_ScopeVersionUnique ==
    /\ \A r1, r2 \in records :
          (r1.scope = r2.scope /\ r1.version = r2.version) => r1 = r2
    /\ call.op \in MigrateOps
          => \A i \in 1..Len(trace) :
                SecondOfScopeVersion(i)
                    => /\ i < Len(trace)
                       /\ trace[i + 1].op = "insert"
                       /\ ~trace[i + 1].ok
                       /\ ~result.ok
                       /\ result.cause = "insert migration failed"
                       /\ txState = "rolledback"
                       /\ records = pre.records
                       /\ schema = pre.schema

\* C9 witness: on the tree with two 1.0.0 files in one scope the first file
\* was inserted, the second file's up-script ran and the call failed.
C9_Witness ==
    /\ call.op = "Migrate"
    /\ m.fs = TreeDup
    /\ pre.records = {}
    /\ \E i \in 1..Len(trace) : SecondOfScopeVersion(i)
    /\ ~result.ok

\* The file of the catalog an operation of the trace is about.
FileOf(e) == CHOOSE file \in Catalog : file.Name = e.name /\ file.Scope = e.scope

\* A file the forward application has to apply: at or below the target and
\* without a row before the call.
Eligible(file) ==
    /\ ~GreaterThan(file.Version, Target)
    /\ ~Recorded(file, pre.records)

\* The positions of the trace where the up-script of the file was run.
UpsOf(file) ==
    {i \in 1..Len(trace) :
        trace[i].op = "up" /\ trace[i].name = file.Name /\ trace[i].scope = file.Scope}

\* C10: when no stored row is above the target V, a successful Migrate(V)
\* runs the up-script of each catalog file that is at or below V and has no
\* row exactly once and of no other file, in ascending catalog order, inserts
\* the file's row right after its up-script, and runs no down-script.
C10_ForwardApplication ==
    (/\ call.op = "Migrate"
     /\ result.ok
     /\ \A r \in pre.records : ~GreaterThan(RowVersion(r), Target))
        => /\ \A file \in Catalog :
                Cardinality(UpsOf(file)) = (IF Eligible(file) THEN 1 ELSE 0)
           /\ \A i \in 1..Len(trace) :
                /\ trace[i].op # "down"
                /\ trace[i].op = "up"
                      => /\ trace[i].ok
                         /\ \E file \in Catalog : i \in UpsOf(file)
                         /\ trace[i].text = ReadFile(m.fs, FileOf(trace[i]).UpPath).text
                         /\ i < Len(trace)
                         /\ trace[i + 1].op = "insert"
                         /\ trace[i + 1].ok
                         /\ trace[i + 1].name = trace[i].name
                         /\ trace[i + 1].scope = trace[i].scope
                /\ trace[i].op = "insert" => (i > 1 /\ trace[i - 1].op = "up")
           /\ \A i, j \in 1..Len(trace) :
                (i < j /\ trace[i].op = "up" /\ trace[j].op = "up")
                    => ~FileLess(FileOf(trace[j]), FileOf(trace[i]))
           /\ Applied(records)
                = Applied(pre.records)
                    \cup {<<file.Name, file.Scope, VersionString(file.Version),
                            ReadFile(m.fs, file.UpPath).text,
                            ReadFile(m.fs, file.DownPath).text>> :
                              file \in {g \in Catalog : Eligible(g)}}

\* C10 witness: with numbered directories the 1.1.0 file of directory 1_a was
\* applied before the 1.0.0 file of directory 2_b.
C10_Witness ==
    /\ call.op = "Migrate"
    /\ m.fs = TreePrio
    /\ call.version = V110
    /\ result.ok
    /\ schema = pre.schema \o <<<<"U4">>, <<"U5">>>>

\* The positions of the trace where a down-script was run, and where rows
\* were deleted.
Downs == {i \in 1..Len(trace) : trace[i].op = "down"}
Deletes == {i \in 1..Len(trace) : trace[i].op = "delete"}

\* The rows above the target when the latest call started.
HigherRows == {r \in pre.records : GreaterThan(RowVersion(r), Target)}

\* The down-scripts ran in descending order of version.
DownsDescending ==
    \A i, j \in Downs :
        i < j => ~GreaterThan(NameVersion(trace[j].name), NameVersion(trace[i].name))

\* Each down-script run is the stored down-script of a row above the target,
\* no row's script ran twice, and a failed one is the last that ran.
DownsOnePerRow ==
    /\ \A i \in Downs :
          \E r \in HigherRows :
              r.name = trace[i].name /\ r.scope = trace[i].scope /\ r.down = trace[i].text
    /\ \A i, j \in Downs :
          (trace[i].name = trace[j].name /\ trace[i].scope = trace[j].scope) => i = j
    /\ \A i, j \in Downs : (i < j) => trace[i].ok

\* At most one delete, after the down-script of every row above the target
\* has succeeded, of exactly those rows; none after a failed down-script.
DeleteOnceAfterDowns ==
    /\ Cardinality(Deletes) <= 1
    /\ \A d \in Deletes :
          /\ \A i \in Downs : i < d /\ trace[i].ok
          /\ \A r \in HigherRows :
                \E i \in Downs : trace[i].name = r.name /\ trace[i].scope = r.scope
          /\ trace[d].ids = {r.id : r \in HigherRows}
    /\ (\E i \in Downs : ~trace[i].ok) => (Deletes = {} /\ records = pre.records)

RowsOf(rows) == {rows[i] : i \in 1..Len(rows)}

\* C12: the higher-migration set a Migrate call computes for its target V from
\* the rows of the table is the set of the rows whose version is strictly
\* greater than V, a release row with the numeric triple of a prerelease V
\* included.
C12_HigherSetExact ==
    (call.op \in MigrateOps /\ NewVersion(call.version).ok)
        => \A higher \in findHigherVersionMigrations(pre.records, Target) :
              RowsOf(higher) = HigherRows

\* A file of the catalog has no down-script in the tree.
DownScriptMissing == \E file \in Catalog : ~ReadFile(m.fs, file.DownPath).ok

\* C13: with downgrade enabled and a catalog file without a down-script,
\* Migrate fails in the integrity verification and has neither executed a
\* script nor written a row, whatever the table holds, the empty table
\* included.
C13_MissingDownFails ==
    (/\ call.op = "Migrate"
     /\ NewVersion(call.version).ok
     /\ m.allowDowngrade
     /\ CatalogOk
     /\ DownScriptMissing)
        => /\ ~result.ok
           /\ result.err = "verify integrity failed"
           /\ ~Touched(trace)

\* The latest call opened a transaction.
Began == \E i \in 1..Len(trace) : trace[i].op = "begin" /\ trace[i].ok

\* C14: a Migrate call that opened a transaction has committed it or rolled
\* it back when it returns, also when collecting the files failed after the
\* transaction was opened.
C14_TransactionEnded ==
    (call.op \in MigrateOps /\ Began) => txState \in {"committed", "rolledback"}

\* The positions of the trace where the commit failed.
FailedCommits == {i \in 1..Len(trace) : trace[i].op = "commit" /\ ~trace[i].ok}

\* C15: after a failed commit Migrate attempts a rollback and returns an
\* error, never success: the commit error alone when the rollback succeeds,
\* the rollback error joined with the commit error when the rollback fails.
C15_FailedCommit ==
    (call.op \in MigrateOps)
        => \A i \in FailedCommits :
              /\ ~result.ok
              /\ result.err = "commit migrations failed"
              /\ Len(trace) = i + 1
              /\ trace[i + 1].op = "rollback"
              /\ result.joined = ~trace[i + 1].ok
              /\ records = pre.records
              /\ schema = pre.schema

\* C15 witness: the commit failed after an up-script and the rollback failed
\* as well.
C15_Witness ==
    /\ call.op = "Migrate"
    /\ FailedCommits # {}
    /\ Executed(trace) # <<>>
    /\ ~trace[Len(trace)].ok
    /\ trace[Len(trace)].op = "rollback"
    /\ result.joined

\* C15 witness of the other case is part of the same runs: the rollback
\* succeeded and the commit error is returned alone.
CommitFailedRollbackOk ==
    /\ call.op = "Migrate"
    /\ FailedCommits # {}
    /\ trace[Len(trace)] = Op("rollback", TRUE)
    /\ ~result.joined

\* C16: the order of the catalog is a strict total order: of two distinct
\* files exactly one precedes the other by priority, then version, then name,
\* so the keys leave one order for the forward application.
C16_CatalogOrderTotal ==
    (call.op \in MigrateOps /\ CatalogOk /\ Began)
        => /\ \A a, b \in Catalog : (a # b) => (FileLess(a, b) # FileLess(b, a))
           /\ Cardinality(Sorted[m.fs]) = 1

\* The positions of the trace where an up-script was run.
Ups == {i \in 1..Len(trace) : trace[i].op = "up"}

\* No call runs an up-script and a down-script.
OneDirection == Ups = {} \/ Downs = {}

HasUpSuffix(name) == Len(name) >= 2 /\ name[Len(name)] = W("up.sql")

\* C18: the catalog a Migrate call collects holds one entry for every file of
\* the tree whose name ends in the up marker and no entry for any other file.
C18_CatalogIsUpFiles ==
    (call.op \in MigrateOps /\ Began /\ CatalogOk)
        => /\ {file.UpPath : file \in RowsOf(m.files)}
                = {e.path : e \in {g \in m.fs : HasUpSuffix(BaseName(g.path))}}
           /\ \A i, j \in 1..Len(m.files) : m.files[i].UpPath = m.files[j].UpPath => i = j

\* The edit left the text as it was up to line endings and surrounding
\* whitespace.
LayoutEdit == script.edit \in {"line-endings", "space"}

\* C19: the checksum of a pair is the same after CRLF line endings were
\* replaced by LF in a fragment and after leading or trailing whitespace was
\* added to a fragment or removed from it.
C19_ChecksumStable == LayoutEdit => script.checksum = applied.checksum

\* A fragment as createChecksum normalizes it.
Normalized(text) == TrimSpace(ReplaceCRLF(text))

\* C20: two pairs whose normalized up fragments differ or whose normalized
\* down fragments differ have different checksums, also when text only moved
\* from one fragment to the other.
C20_ChecksumInjective ==
    (\/ Normalized(script.up) # Normalized(applied.up)
     \/ Normalized(script.down) # Normalized(applied.down))
        => script.checksum # applied.checksum

\* The files whose application p's transaction committed.
CommittedUps(p) == IF procs[p].tx = "committed" THEN procs[p].ups ELSE {}

\* C21: of two Migrate calls to one target that run at once from separate
\* engines over one tree and database, at most one commits the application of
\* a given file: no file's up-script is committed by both transactions and
\* no two committed rows are of one file.
C21_AppliedOnce ==
    (DOMAIN procs = Procs)
        => /\ CommittedUps(1) \cap CommittedUps(2) = {}
           /\ \A r1, r2 \in records :
                 (r1.name = r2.name /\ r1.scope = r2.scope) => r1 = r2

\* C21 witness: both calls found the file unrecorded and ran its up-script;
\* one committed it, the other's insert failed and its transaction was
\* rolled back.
C21_Witness ==
    /\ DOMAIN procs = Procs
    /\ procs[1].tx = "committed"
    /\ procs[1].ups # {}
    /\ procs[2].tx = "rolledback"
    /\ procs[2].err = "insert migration failed"
    /\ Len(schema) = Len(pre.schema) + Cardinality(procs[1].ups)

====
